---- MODULE Spec2Model ----
(***************************************************************************)
(* lfr.EventEmitter (src/src/events/EventEmitter.js): a registry of event  *)
(* listeners indexed by namespace path in an lfr.Trie, plus the list all_  *)
(* of listeners that trigger for every event.  Every public method is one  *)
(* action; the methods are operators over a record st that holds the       *)
(* emitter's fields while a call runs, so that a call made from inside a   *)
(* call (emit from addListener, off from handlerInternal) is the same      *)
(* operator applied to the state the caller has reached.                   *)
(***************************************************************************)
EXTENDS Integers, Sequences, FiniteSets, TLC

(***************************************************************************)
(* Bounds of the model.                                                    *)
(***************************************************************************)
\* most entries the listener arrays hold together before a registration is not tried
MaxEntries == 2
\* most handlerInternal closures many() creates in one behaviour
MaxClosures == 1
\* the amount given to many() when it is neither 0 nor, through once(), 1
MaxAmount == 2
\* how far past maxListeners_ a listener array grows in the leak-warning runs
WarnExtra == 2

\* lfr.EventEmitter.prototype.maxListeners_ = 10
DefaultMaxListeners == 10

(***************************************************************************)
(* JavaScript values.  A value is a record told apart by its type field;   *)
(* two functions are the same function when name and id agree.             *)
(***************************************************************************)
Undefined == [type |-> "undefined"]
Null == [type |-> "null"]
\* a string is the sequence of its characters
Str(chars) == [type |-> "string", chars |-> chars]
\* an event given as an array of namespace segments
Arr(items) == [type |-> "array", items |-> items]
\* a callback of the caller
Fn(name) == [type |-> "function", name |-> name, id |-> 0]
\* the function object many() creates: its id-th handlerInternal closure
Handler(id) == [type |-> "function", name |-> "handlerInternal", id |-> id]
\* a value that is truthy and is not a function, such as {}
NotAFunction == [type |-> "object", name |-> "{}", id |-> 0]

\* typeof v === 'function'
IsFunction(v) == v.type = "function"

\* what if (v) takes as true
Truthy(v) ==
  CASE v.type = "undefined" -> FALSE
    [] v.type = "null" -> FALSE
    [] v.type = "string" -> v.chars # << >>
    [] OTHER -> TRUE

\* a listener array as the trie stores it: the entries and the expando warned
ListenerArray(items, warned) == [type |-> "array", items |-> items, warned |-> warned]

\* the literal 'newListener'
NewListenerName == Str(<<"n", "e", "w", "L", "i", "s", "t", "e", "n", "e", "r">>)

(***************************************************************************)
(* String.prototype.split(separator).  An undefined separator gives the    *)
(* whole string as the only piece; an empty one gives the characters.      *)
(***************************************************************************)
RECURSIVE SplitOn(_, _, _)
SplitOn(s, sep, cur) ==
  IF s = << >> THEN << cur >>
  ELSE IF Len(sep) <= Len(s) /\ SubSeq(s, 1, Len(sep)) = sep
       THEN << cur >> \o SplitOn(SubSeq(s, Len(sep) + 1, Len(s)), sep, << >>)
       ELSE SplitOn(Tail(s), sep, Append(cur, Head(s)))

split(s, sep) ==
  IF sep.type = "undefined" THEN << s >>
  ELSE IF sep.chars = << >> THEN [i \in 1..Len(s) |-> << s[i] >>]
  ELSE SplitOn(s, sep.chars, << >>)

(***************************************************************************)
(* lfr.Trie, whose source is not in the repository: the values stored at   *)
(* exact key paths.  A trie is the function from the paths that were set   *)
(* to their values.                                                        *)
(***************************************************************************)
TrieNew == << >>

\* the value stored at exactly the path key, undefined when none was set
getKeyValue(tree, key) ==
  IF key \in DOMAIN tree THEN tree[key] ELSE Undefined

\* stores value at key, replacing what was there
setKeyValue(tree, key, value) ==
  [k \in (DOMAIN tree) \cup {key} |-> IF k = key THEN value ELSE tree[k]]

\* discards every node
clear(tree) == TrieNew

(***************************************************************************)
(* The emitter while a call runs.  st has the emitter's fields             *)
(*   listenersTree_, delimiter_, maxListeners_                             *)
(*   all_     0 for null, else the place in heap of the array all_ names   *)
(*   heap     the arrays all_ has named (emit may still iterate one that   *)
(*            removeAllListeners has dropped)                              *)
(*   closures the variables of each handlerInternal closure                *)
(* the host                                                                *)
(*   console  whether console.warning is a function on this host           *)
(* and what the call has done so far                                       *)
(*   calls    the functions invoked, in order, each with its arguments and *)
(*            its caller                                                   *)
(*   warnings the console.warning calls made                               *)
(*   exc      the exception in flight, "none" when there is none           *)
(*   ret      the value the last completed method returned                 *)
(*   depth    how many emit calls are running, one inside the other        *)
(*   busy     the flag of the caller's callbacks that call the emitter:    *)
(*            set while one of them does so                                *)
(***************************************************************************)
Threw(st) == st.exc # "none"

\* throw new TypeError(...), and the TypeError of calling what is no function
Throw(st, err) == [st EXCEPT !.exc = err]

Return(st, value) == IF Threw(st) THEN st ELSE [st EXCEPT !.ret = value]

\* this.delimiter: a property the emitter never defines (its field is delimiter_)
delimiter == Undefined

\* lfr.EventEmitter.prototype.splitNamespaces
splitNamespaces(st, event) ==
  IF event.type = "string" THEN split(event.chars, delimiter) ELSE event.items

\* whether the characters a are the first characters of b
IsPrefix(a, b) == Len(a) <= Len(b) /\ SubSeq(b, 1, Len(a)) = a

\* a lookup that, finding nothing at the path, takes the array of a name the
\* event's name starts with
listenersOfPrefix(st, event) ==
  LET key == splitNamespaces(st, event)
      above == {k \in DOMAIN st.listenersTree_ :
                  Len(k) = 1 /\ Len(key) = 1 /\ k[1] # << >> /\ IsPrefix(k[1], key[1])}
  IN IF key \in DOMAIN st.listenersTree_ THEN st.listenersTree_[key]
     ELSE IF above # {} THEN st.listenersTree_[CHOOSE k \in above : TRUE]
     ELSE Undefined

\* lfr.EventEmitter.prototype.listeners
listeners(st, event) ==
  getKeyValue(st.listenersTree_, splitNamespaces(st, event))

\* lfr.EventEmitter.prototype.listenersAny
listenersAny(st) ==
  IF st.all_ = 0 THEN Null ELSE ListenerArray(st.heap[st.all_], FALSE)

\* a merge that puts the new entries first
mergeListenerArrays_Prepend(arr1, arr2) ==
  [arr1 EXCEPT !.items = arr2.items \o arr1.items]

\* lfr.EventEmitter.prototype.mergeListenerArrays_: pushes onto arr1 itself
mergeListenerArrays_(arr1, arr2) ==
  [arr1 EXCEPT !.items = arr1.items \o arr2.items]

\* lfr.Trie's setKeyValue(key, value, this.mergeListenerArrays_): stores the
\* merge of the existing value and value at key when a value exists there,
\* else value
setKeyValueMerge(tree, key, value) ==
  IF key \in DOMAIN tree
  THEN [tree EXCEPT ![key] = mergeListenerArrays_(tree[key], value)]
  ELSE setKeyValue(tree, key, value)

\* handlerInternal.origin for a closure of many(), undefined for other functions
origin(st, fn) ==
  IF fn.name = "handlerInternal" THEN st.closures[fn.id].listener ELSE Undefined

\* a test that forgets the origin of a once/many function
MatchesIdentityOnly(st, entry, listener) == entry = listener

\* the test of off's loop: listeners[i] === listener || (origin && origin === listener)
Matches(st, entry, listener) ==
  \/ entry = listener
  \/ /\ Truthy(origin(st, entry))
     /\ origin(st, entry) = listener

\* seq without its i-th element: Array.prototype.splice(i, 1)
splice(seq, i) == SubSeq(seq, 1, i - 1) \o SubSeq(seq, i + 1, Len(seq))

\* lfr.EventEmitter.prototype.off, alias removeListener
off(st, event, listener) ==
  IF Threw(st) THEN st
  ELSE IF ~IsFunction(listener) THEN Throw(st, "TypeError")
  ELSE
    LET key == splitNamespaces(st, event)
        found == listeners(st, event)
    IN IF found.type = "array"
       THEN LET hits == {i \in 1..Len(found.items) : Matches(st, found.items[i], listener)}
            IN IF hits = {}
               THEN Return(st, "this")
               ELSE LET first == CHOOSE i \in hits : \A j \in hits : i <= j
                    IN Return([st EXCEPT !.listenersTree_[key].items = splice(@, first)],
                              "this")
       ELSE Return(st, "this")

\* lfr.EventEmitter.prototype.offAny
offAny(st, listener) ==
  IF Threw(st) THEN st
  ELSE IF ~IsFunction(listener) THEN Throw(st, "TypeError")
  ELSE IF st.all_ = 0 THEN Return(st, "this")
  ELSE
    LET arr == st.heap[st.all_]
        hits == {i \in 1..Len(arr) : arr[i] = listener}
    IN IF hits = {}
       THEN Return(st, "this")
       ELSE LET first == CHOOSE i \in hits : \A j \in hits : i <= j
            IN Return([st EXCEPT !.heap[st.all_] = splice(@, first)], "this")

\* lfr.EventEmitter.prototype.onAny
onAny(st, listener) ==
  IF Threw(st) THEN st
  ELSE
    LET s1 == IF st.all_ = 0
              THEN [st EXCEPT !.heap = Append(@, << >>), !.all_ = Len(st.heap) + 1]
              ELSE st
    IN Return([s1 EXCEPT !.heap[s1.all_] = Append(@, listener)], "this")

RECURSIVE apply(_, _, _, _)
RECURSIVE emit(_, _, _)
RECURSIVE addListener(_, _, _)

\* the event name 'a', which the caller's callbacks below use
EventA == Str(<< "a" >>)

\* whether the array value (undefined when there is none) holds fn
Holds(value, fn) ==
  value.type = "array" /\ \E i \in 1..Len(value.items) : value.items[i] = fn

\* The functions a caller registers.  f, g and m return at once.  The others
\* are
\*   throws  function() { throw new Error(); }
\*   emits   function() { if (!busy) { busy = true; emitter.emit('a'); busy = false; } }
\*   leaves  function leaves() { emitter.off('a', leaves); emitter.offAny(leaves); }
\*   onM     function() { if (!busy && !(listeners('a') holds m))
\*                          { busy = true; emitter.on('a', m); busy = false; } }
\*   onAnyM  function() { if (!(listenersAny() holds m)) emitter.onAny(m); }
\* invoke is the body of fn run by fn.apply(this, args).
invoke(st, fn, args) ==
  CASE fn.name = "throws" -> Throw(st, "Error")
    [] fn.name = "emits" ->
         IF st.busy THEN st
         ELSE LET s1 == emit([st EXCEPT !.busy = TRUE], EventA, << >>)
              IN IF Threw(s1) THEN s1 ELSE [s1 EXCEPT !.busy = FALSE]
    [] fn.name = "leaves" -> offAny(off(st, EventA, fn), fn)
    [] fn.name = "onM" ->
         IF st.busy \/ Holds(listeners(st, EventA), Fn("m")) THEN st
         ELSE LET s1 == addListener([st EXCEPT !.busy = TRUE], EventA, Fn("m"))
              IN IF Threw(s1) THEN s1 ELSE [s1 EXCEPT !.busy = FALSE]
    [] fn.name = "onAnyM" ->
         IF Holds(listenersAny(st), Fn("m")) THEN st ELSE onAny(st, Fn("m"))
    [] OTHER -> st

\* a handlerInternal that tests amount before it decrements it (amount-- === 0)
handlerInternalPostDecrement(st, id, args) ==
  LET c == st.closures[id]
      s1 == [st EXCEPT !.closures[id].amount = c.amount - 1]
      s2 == IF c.amount = 0 THEN off(s1, c.event, Handler(id)) ELSE s1
  IN apply(s2, c.listener, args, id)

\* a handlerInternal that applies the listener before it removes itself
handlerInternalApplyFirst(st, id, args) ==
  LET c == st.closures[id]
      s1 == [st EXCEPT !.closures[id].amount = c.amount - 1]
      s2 == apply(s1, c.listener, args, id)
  IN IF c.amount - 1 = 0 THEN off(s2, c.event, Handler(id)) ELSE s2

\* handlerInternal, the function many() registers; id names its closure
handlerInternal(st, id, args) ==
  LET c == st.closures[id]
      s1 == [st EXCEPT !.closures[id].amount = c.amount - 1]
      s2 == IF c.amount - 1 = 0 THEN off(s1, c.event, Handler(id)) ELSE s1
  IN apply(s2, c.listener, args, id)

\* fn.apply(this, args): runs the function fn; by is 0 when emit makes the call
\* and the closure's id when a handlerInternal makes it.  The call is written
\* down with the emit nesting it happens at and the tree as fn finds it.
apply(st, fn, args, by) ==
  IF Threw(st) THEN st
  ELSE IF ~IsFunction(fn) THEN Throw(st, "TypeError")
  ELSE
    LET s1 == [st EXCEPT !.calls = Append(@, [fn |-> fn, args |-> args, by |-> by,
                                               depth |-> st.depth,
                                               seen |-> st.listenersTree_])]
    IN IF fn.name = "handlerInternal" THEN handlerInternal(s1, fn.id, args)
       ELSE invoke(s1, fn, args)

\* the for loop of emit over listeners, which is either emit's own array (the
\* result of concat) or, when frame.own is FALSE, the array all_ named
RECURSIVE emitLoop(_, _, _, _, _)

\* a loop that catches what a listener throws, runs the listeners after it and
\* throws again when it is through
emitLoopResuming(st, frame, i, listened, args) ==
  LET list == IF frame.own THEN frame.items ELSE st.heap[frame.ref]
  IN IF Threw(st) THEN st
     ELSE IF i > Len(list) THEN Return(st, IF listened THEN "true" ELSE "false")
     ELSE IF Truthy(list[i])
          THEN LET s1 == apply(st, list[i], args, 0)
               IN IF Threw(s1)
                  THEN Throw(emitLoop([s1 EXCEPT !.exc = "none"], frame, i + 1, TRUE, args),
                             s1.exc)
                  ELSE emitLoop(s1, frame, i + 1, TRUE, args)
          ELSE emitLoop(st, frame, i + 1, listened, args)

emitLoop(st, frame, i, listened, args) ==
  LET list == IF frame.own THEN frame.items ELSE st.heap[frame.ref]
  IN IF Threw(st) THEN st
     ELSE IF i > Len(list) THEN Return(st, IF listened THEN "true" ELSE "false")
     ELSE IF Truthy(list[i])
          THEN emitLoop(apply(st, list[i], args, 0), frame, i + 1, TRUE, args)
          ELSE emitLoop(st, frame, i + 1, listened, args)

\* the emit that called emitLoop is over
Leave(st) == IF Threw(st) THEN st ELSE [st EXCEPT !.depth = @ - 1]

\* an emit that runs the listeners of all_ before those of the event
emitAnyFirst(st, event, args) ==
  IF Threw(st) THEN st
  ELSE
    LET found == listeners(st, event)
        any == IF st.all_ = 0 THEN << Null >> ELSE st.heap[st.all_]
        s0 == [st EXCEPT !.depth = @ + 1]
    IN IF Truthy(found)
       THEN Leave(emitLoop(s0, [own |-> TRUE, items |-> any \o found.items, ref |-> 0],
                           1, FALSE, args))
       ELSE IF st.all_ = 0
            THEN Return(st, "false")
            ELSE Leave(emitLoop(s0, [own |-> FALSE, items |-> << >>, ref |-> st.all_],
                                1, FALSE, args))

\* lfr.EventEmitter.prototype.emit
emit(st, event, args) ==
  IF Threw(st) THEN st
  ELSE
    LET found == listeners(st, event)
        any == IF st.all_ = 0 THEN << Null >> ELSE st.heap[st.all_]
        s0 == [st EXCEPT !.depth = @ + 1]
    IN IF Truthy(found)
       THEN Leave(emitLoop(s0, [own |-> TRUE, items |-> found.items \o any, ref |-> 0],
                           1, FALSE, args))
       ELSE IF st.all_ = 0
            THEN Return(st, "false")
            ELSE Leave(emitLoop(s0, [own |-> FALSE, items |-> << >>, ref |-> st.all_],
                                1, FALSE, args))

\* console.warning(...) at EventEmitter.js:61: a TypeError where the host's
\* console has no such function
consoleWarning(st, count, event) ==
  IF Threw(st) THEN st
  ELSE IF st.console
       THEN [st EXCEPT !.warnings = Append(@, [count |-> count, event |-> event])]
       ELSE Throw(st, "TypeError")

\* the test of the leak warning, EventEmitter.js:60
exceedsMax(st, arr) == Len(arr.items) > st.maxListeners_ /\ ~arr.warned

\* the rest of addListener once "newListener" is dispatched: the merge into the
\* tree and the leak warning (EventEmitter.js:54-70)
register(st, event, listener) ==
  IF Threw(st) THEN st
  ELSE
    LET key == splitNamespaces(st, event)
        s2 == [st EXCEPT !.listenersTree_ =
                 setKeyValueMerge(@, key, ListenerArray(<< listener >>, FALSE))]
        arr == getKeyValue(s2.listenersTree_, key)
    IN IF exceedsMax(s2, arr)
       THEN LET s3 == consoleWarning(s2, Len(arr.items), event)
            IN IF Threw(s3) THEN s3
               ELSE Return([s3 EXCEPT !.listenersTree_[key].warned = TRUE], "this")
       ELSE Return(s2, "this")

\* an addListener that dispatches "newListener" before it looks at the listener
addListenerLateCheck(st, event, listener) ==
  IF Threw(st) THEN st
  ELSE
    LET s1 == emit(st, NewListenerName, << event, listener >>)
    IN IF Threw(s1) THEN s1
       ELSE IF ~IsFunction(listener) THEN Throw(s1, "TypeError")
       ELSE register(s1, event, listener)

\* an addListener that stores the listener before it dispatches "newListener"
addListenerStoreFirst(st, event, listener) ==
  IF Threw(st) THEN st
  ELSE IF ~IsFunction(listener) THEN Throw(st, "TypeError")
  ELSE Return(emit(register(st, event, listener), NewListenerName, << event, listener >>),
              "this")

\* lfr.EventEmitter.prototype.addListener, alias on
addListener(st, event, listener) ==
  IF Threw(st) THEN st
  ELSE IF ~IsFunction(listener) THEN Throw(st, "TypeError")
  ELSE register(emit(st, NewListenerName, << event, listener >>), event, listener)

\* lfr.EventEmitter.prototype.many
many(st, event, amount, listener) ==
  IF Threw(st) THEN st
  ELSE IF amount <= 0 THEN Return(st, "undefined")
  ELSE
    LET s1 == [st EXCEPT !.closures =
                 Append(@, [listener |-> listener, event |-> event, amount |-> amount])]
    IN Return(addListener(s1, event, Handler(Len(s1.closures))), "this")

\* lfr.EventEmitter.prototype.once
once(st, event, listener) == many(st, event, 1, listener)

\* a removeAllListeners that empties all_ (this.all_ = []) where it should
\* delete it
removeAllListenersEmptied(st, opt_event) ==
  IF Threw(st) THEN st
  ELSE IF Truthy(opt_event)
       THEN Return([st EXCEPT !.listenersTree_ =
                      setKeyValue(@, splitNamespaces(st, opt_event),
                                  ListenerArray(<< >>, FALSE))],
                   "this")
       ELSE Return([st EXCEPT !.listenersTree_ = clear(@),
                              !.heap = Append(@, << >>), !.all_ = Len(st.heap) + 1],
                   "this")

\* lfr.EventEmitter.prototype.removeAllListeners; opt_event Undefined when not given
removeAllListeners(st, opt_event) ==
  IF Threw(st) THEN st
  ELSE IF Truthy(opt_event)
       THEN Return([st EXCEPT !.listenersTree_ =
                      setKeyValue(@, splitNamespaces(st, opt_event),
                                  ListenerArray(<< >>, FALSE))],
                   "this")
       ELSE Return([st EXCEPT !.listenersTree_ = clear(@), !.all_ = 0], "this")

\* lfr.EventEmitter.prototype.setDelimiter
setDelimiter(st, d) == Return([st EXCEPT !.delimiter_ = d], "this")

\* lfr.EventEmitter.prototype.getDelimiter
getDelimiter(st) == st.delimiter_

\* lfr.EventEmitter.prototype.setMaxListeners
setMaxListeners(st, max) == Return([st EXCEPT !.maxListeners_ = max], "this")

(***************************************************************************)
(* The state between calls: the emitter's fields, the closures of the      *)
(* handlerInternal functions created so far, the host's console, and the   *)
(* last call with what it did (what a caller and the registered callbacks  *)
(* observe of it).  run follows the latest many() or once() registration   *)
(* through the emits of its event that come right after it: how many there *)
(* were (k, counted up to n + 1) and how often its handlerInternal invoked *)
(* the listener in them.  issued is the set of the paths for which the     *)
(* leak warning has been written to the console so far.                    *)
(***************************************************************************)
VARIABLES listenersTree_, all_, delimiter_, maxListeners_, closures, console, last, run,
          issued

vars == << listenersTree_, all_, delimiter_, maxListeners_, closures, console, last, run,
           issued >>

\* the emitter as a call finds it
Entry ==
  [listenersTree_ |-> listenersTree_,
   all_ |-> IF all_.type = "null" THEN 0 ELSE 1,
   heap |-> IF all_.type = "null" THEN << >> ELSE << all_.items >>,
   delimiter_ |-> delimiter_,
   maxListeners_ |-> maxListeners_,
   closures |-> closures,
   console |-> console,
   calls |-> << >>,
   warnings |-> << >>,
   exc |-> "none",
   ret |-> "undefined",
   depth |-> 0,
   busy |-> FALSE]

\* the closure variables of a handlerInternal that no listener array holds
Unreachable == [listener |-> Undefined, event |-> Undefined, amount |-> 0]

\* whether some listener array of st holds the function fn
Held(st, fn) ==
  \/ \E k \in DOMAIN st.listenersTree_ :
       \E i \in 1..Len(st.listenersTree_[k].items) : st.listenersTree_[k].items[i] = fn
  \/ st.all_ # 0 /\ \E i \in 1..Len(st.heap[st.all_]) : st.heap[st.all_][i] = fn

\* the closures once the call is over: one whose function no array holds can
\* never run again, and its variables are dropped
Collected(st) ==
  [id \in 1..Len(st.closures) |->
     IF Held(st, Handler(id)) THEN st.closures[id] ELSE Unreachable]

NoRun ==
  [active |-> FALSE, id |-> 0, event |-> Undefined, listener |-> Undefined,
   n |-> 0, k |-> 0, invoked |-> 0]

\* how many calls of seq the handlerInternal closure id made
CallsBy(seq, id) == Cardinality({i \in 1..Len(seq) : seq[i].by = id})

\* run after the call op(event, amount, listener) that left st
Followed(st, op, event, amount, listener) ==
  IF op \in {"many", "once"} /\ ~Threw(st) /\ amount >= 1
  THEN [active |-> TRUE, id |-> Len(st.closures), event |-> event,
        listener |-> listener, n |-> amount, k |-> 0, invoked |-> 0]
  ELSE IF op = "emit" /\ run.active /\ event = run.event
  THEN [run EXCEPT !.k = IF run.k > run.n THEN run.k ELSE run.k + 1,
                   !.invoked = @ + CallsBy(st.calls, run.id)]
  ELSE NoRun

\* the call op(event, amount, listener) has run and left st: what it assigned
\* stays assigned also when it threw
Exit(st, op, event, amount, listener) ==
  /\ listenersTree_' = st.listenersTree_
  /\ all_' = IF st.all_ = 0 THEN Null ELSE Arr(st.heap[st.all_])
  /\ delimiter_' = st.delimiter_
  /\ maxListeners_' = st.maxListeners_
  /\ closures' = Collected(st)
  /\ console' = console
  /\ run' = Followed(st, op, event, amount, listener)
  /\ issued' = issued \cup {splitNamespaces(st, st.warnings[i].event) :
                               i \in 1..Len(st.warnings)}
  /\ last' = [op |-> op, event |-> event, amount |-> amount, listener |-> listener,
              ret |-> IF Threw(st) THEN "none" ELSE st.ret,
              exc |-> st.exc, calls |-> st.calls, warnings |-> st.warnings]

\* new lfr.EventEmitter() on a host whose console has a function warning
\* (host = TRUE) or has none, as the consoles of browsers and of Node, which
\* define warn (host = FALSE)
InitOn(host) ==
  /\ listenersTree_ = TrieNew
  /\ all_ = Null
  /\ delimiter_ = Str(<< "." >>)
  /\ maxListeners_ = DefaultMaxListeners
  /\ closures = << >>
  /\ console = host
  /\ run = NoRun
  /\ issued = {}
  /\ last = [op |-> "new", event |-> Undefined, amount |-> 0, listener |-> Undefined,
             ret |-> "this", exc |-> "none", calls |-> << >>, warnings |-> << >>]

Init == InitOn(FALSE)

\* the entries of the listener array of event, none when there is no array
Entries(tree, event) ==
  LET found == getKeyValue(tree, splitNamespaces(Entry, event))
  IN IF found.type = "array" THEN found.items ELSE << >>

\* the entries of all_, none when it is null
AnyEntries(any) == IF any.type = "array" THEN any.items ELSE << >>

RECURSIVE SumLen(_, _)
SumLen(tree, keys) ==
  IF keys = {} THEN 0
  ELSE LET k == CHOOSE x \in keys : TRUE
       IN Len(tree[k].items) + SumLen(tree, keys \ {k})

\* the entries registered in all the listener arrays together
Size == SumLen(listenersTree_, DOMAIN listenersTree_) + Len(AnyEntries(all_))

\* a registration is tried while fewer than max entries are registered; one
\* that throws before registering is always tried
Room(listener, max) == ~IsFunction(listener) \/ Size < max

On(event, listener, max) ==
  /\ Room(listener, max)
  /\ Exit(addListener(Entry, event, listener), "on", event, 0, listener)

Off(event, listener) ==
  Exit(off(Entry, event, listener), "off", event, 0, listener)

OnAny(listener) ==
  /\ Size < MaxEntries
  /\ Exit(onAny(Entry, listener), "onAny", Undefined, 0, listener)

OffAny(listener) ==
  Exit(offAny(Entry, listener), "offAny", Undefined, 0, listener)

Many(event, amount, listener, max) ==
  /\ Size < max
  /\ Len(closures) < MaxClosures
  /\ Exit(many(Entry, event, amount, listener), "many", event, amount, listener)

Once(event, listener, max) ==
  /\ Size < max
  /\ Len(closures) < MaxClosures
  /\ Exit(once(Entry, event, listener), "once", event, 1, listener)

Emit(event) ==
  Exit(emit(Entry, event, << >>), "emit", event, 0, Undefined)

RemoveAllListeners(opt_event) ==
  Exit(removeAllListeners(Entry, opt_event), "removeAllListeners", opt_event, 0, Undefined)

SetMaxListeners(max) ==
  Exit(setMaxListeners(Entry, max), "setMaxListeners", Undefined, max, Undefined)

SetDelimiter(d) ==
  Exit(setDelimiter(Entry, d), "setDelimiter", d, 0, Undefined)

(***************************************************************************)
(* The calls of the general specification: two event names, two callbacks  *)
(* and a value that is no function.                                        *)
(***************************************************************************)
Events == {EventA, NewListenerName}
Callbacks == {Fn("f"), Fn("g")}
Values == Callbacks \cup {NotAFunction}

Next ==
  \/ \E e \in Events, l \in Values : On(e, l, MaxEntries)
  \/ \E e \in Events, l \in Values : Off(e, l)
  \/ \E l \in Callbacks : OnAny(l)
  \/ \E l \in Values : OffAny(l)
  \/ \E e \in Events, n \in {0, MaxAmount}, l \in Callbacks : Many(e, n, l, MaxEntries)
  \/ \E e \in Events, l \in Callbacks : Once(e, l, MaxEntries)
  \/ \E e \in Events : Emit(e)
  \/ \E e \in Events \cup {Undefined} : RemoveAllListeners(e)

Spec == Init /\ [][Next]_vars

(***************************************************************************)
(* The calls of the namespace specification: a name, two names below it,   *)
(* a name below one of those, and the empty name; removeAllListeners is    *)
(* called with the name that has a name above, beside and below it, with   *)
(* the empty name and with no name.                                        *)
(***************************************************************************)
EventAB == Str(<< "a", ".", "b" >>)
EventAC == Str(<< "a", ".", "c" >>)
EventABC == Str(<< "a", ".", "b", ".", "c" >>)
EventEmpty == Str(<< >>)
NsEvents == {EventA, EventAB, EventAC, EventABC, EventEmpty}

NextNs ==
  \/ \E e \in NsEvents, l \in Callbacks : On(e, l, MaxEntries)
  \/ \E l \in Callbacks : OnAny(l)
  \/ \E e \in NsEvents, l \in Callbacks : Once(e, l, MaxEntries)
  \/ \E e \in NsEvents : Emit(e)
  \/ \E e \in {EventAB, EventEmpty, Undefined} : RemoveAllListeners(e)

SpecNs == Init /\ [][NextNs]_vars

(***************************************************************************)
(* The calls of the leak-warning specification: one event and one callback *)
(* registered until the array is WarnExtra past the default maximum, on a  *)
(* host whose console has the function warning.                            *)
(***************************************************************************)
WarnMax == DefaultMaxListeners + WarnExtra

InitWarn == InitOn(TRUE)

NextWarn ==
  \/ On(EventA, Fn("f"), WarnMax)
  \/ Off(EventA, Fn("f"))
  \/ \E n \in {0, MaxAmount} : Many(EventA, n, Fn("f"), WarnMax)
  \/ Once(EventA, Fn("f"), WarnMax)
  \/ Emit(EventA)
  \/ RemoveAllListeners(EventA)
  \/ SetMaxListeners(0)

SpecWarn == InitWarn /\ [][NextWarn]_vars

(***************************************************************************)
(* The calls of the host specification: those of the leak-warning          *)
(* specification on either kind of host, one whose console has a function  *)
(* warning and one whose console has none.                                 *)
(***************************************************************************)
InitHost == \E host \in BOOLEAN : InitOn(host)

SpecHost == InitHost /\ [][NextWarn]_vars

(***************************************************************************)
(* The calls of the delimiter specification: the names "a.b" and "a:b",    *)
(* the event given as the array of the segments "a" and "b", and           *)
(* setDelimiter with ":" and with ".".                                     *)
(***************************************************************************)
EventAColonB == Str(<< "a", ":", "b" >>)
PathAB == Arr(<< << "a" >>, << "b" >> >>)
DelimEvents == {EventAB, EventAColonB, PathAB}
Delimiters == {Str(<< "." >>), Str(<< ":" >>)}

NextDelim ==
  \/ \E e \in DelimEvents, l \in Callbacks : On(e, l, MaxEntries)
  \/ \E e \in DelimEvents, l \in Callbacks : Off(e, l)
  \/ \E e \in DelimEvents : Emit(e)
  \/ \E e \in DelimEvents : RemoveAllListeners(e)
  \/ \E d \in Delimiters : SetDelimiter(d)

SpecDelim == Init /\ [][NextDelim]_vars

(***************************************************************************)
(* The calls of the invalid-listener specification: one event, and         *)
(* registrations through on, many and once of a callback and of a value    *)
(* that is no function.                                                    *)
(***************************************************************************)
Either == {Fn("f"), NotAFunction}

NextInvalid ==
  \/ \E l \in Either : On(EventA, l, MaxEntries)
  \/ \E l \in Either : Off(EventA, l)
  \/ \E l \in Callbacks : OnAny(l)
  \/ \E n \in {0, MaxAmount}, l \in Either : Many(EventA, n, l, MaxEntries)
  \/ \E l \in Either : Once(EventA, l, MaxEntries)
  \/ \E e \in Events : Emit(e)
  \/ RemoveAllListeners(Undefined)

SpecInvalid == Init /\ [][NextInvalid]_vars

(***************************************************************************)
(* The calls of the reentrant specification: callbacks that return, that   *)
(* throw, and that call emit('a') while an emit is running.                *)
(***************************************************************************)
Reentrant == {Fn("f"), Fn("throws"), Fn("emits")}

NextReentrant ==
  \/ \E e \in Events, l \in Reentrant : On(e, l, MaxEntries)
  \/ \E l \in Reentrant : OnAny(l)
  \/ \E l \in Reentrant : Many(EventA, MaxAmount, l, MaxEntries)
  \/ \E l \in Reentrant : Once(EventA, l, MaxEntries)
  \/ Emit(EventA)
  \/ RemoveAllListeners(Undefined)

SpecReentrant == Init /\ [][NextReentrant]_vars

(***************************************************************************)
(* The calls of the live-list specification: callbacks that, while an emit *)
(* is running, remove themselves or register the callback m.               *)
(***************************************************************************)
Live == {Fn("g"), Fn("leaves"), Fn("onM"), Fn("onAnyM")}

NextLive ==
  \/ \E l \in Live : On(EventA, l, MaxEntries)
  \/ \E l \in Live : OnAny(l)
  \/ \E l \in Live : Once(EventA, l, MaxEntries)
  \/ \E l \in Live : OffAny(l)
  \/ Emit(EventA)
  \/ RemoveAllListeners(Undefined)

SpecLive == Init /\ [][NextLive]_vars

(***************************************************************************)
(* What the claims speak of.                                               *)
(***************************************************************************)
\* listeners(event) as a caller reads it from the tree
ListenersOf(tree, event) == getKeyValue(tree, splitNamespaces(Entry, event))

\* how many entries of seq are x
Count(seq, x) == Cardinality({i \in 1..Len(seq) : seq[i] = x})

\* whether the entries of a occur in b in the same relative order
RECURSIVE IsSubsequence(_, _)
IsSubsequence(a, b) ==
  IF a = << >> THEN TRUE
  ELSE IF b = << >> THEN FALSE
  ELSE IF Head(a) = Head(b) THEN IsSubsequence(Tail(a), Tail(b))
  ELSE IsSubsequence(a, Tail(b))

\* the functions the last call invoked, in order
Invoked(l) == [i \in 1..Len(l.calls) |-> l.calls[i].fn]

\* the step is a call of op that returned
Returned(op) == last'.op = op /\ last'.exc = "none"

\* a once/many function that the step ran for the last time: it was invoked
\* with its amount at 1
RanOut(fn) ==
  /\ fn.name = "handlerInternal"
  /\ closures[fn.id].amount = 1
  /\ \E i \in 1..Len(last'.calls) : last'.calls[i].fn = fn

\* seq without the once/many functions that ran out in the step
RECURSIVE Surviving(_)
Surviving(seq) ==
  IF seq = << >> THEN << >>
  ELSE IF RanOut(Head(seq)) THEN Surviving(Tail(seq))
  ELSE << Head(seq) >> \o Surviving(Tail(seq))

\* C1 as stated: after on(e, L) returns, listeners(e) contains L exactly once, L
\* is its last element, and the entries it had before the call are still there
\* in the same relative order.
C1_Original ==
  [][Returned("on") =>
       LET before == Entries(listenersTree_, last'.event)
           after == Entries(listenersTree_', last'.event)
       IN /\ Count(after, last'.listener) = 1
          /\ after # << >> /\ after[Len(after)] = last'.listener
          /\ IsSubsequence(before, after)]_vars

\* C1 amended: after on(e, L) returns, L is the last element of listeners(e) and
\* occurs there once more than before the call; the entries before it are the
\* entries listeners(e) had before the call, in the same order, less the
\* once/many functions that ran for their last time in the call's own
\* "newListener" dispatch.
C1_OnAppends ==
  [][Returned("on") =>
       LET before == Entries(listenersTree_, last'.event)
           after == Entries(listenersTree_', last'.event)
       IN /\ ListenersOf(listenersTree_', last'.event).type = "array"
          /\ after = Append(Surviving(before), last'.listener)
          /\ Count(after, last'.listener) = Count(before, last'.listener) + 1]_vars

\* on(e, L) has returned with L registered on e before the call already
C1_Witness ==
  /\ last.op = "on" /\ last.exc = "none"
  /\ Count(Entries(listenersTree_, last.event), last.listener) >= 2

\* the places of seq that off(e, L) may remove: L itself, or a once/many
\* function made for L
MatchesOf(seq, listener) ==
  {i \in 1..Len(seq) :
     \/ seq[i] = listener
     \/ seq[i].name = "handlerInternal" /\ closures[seq[i].id].listener = listener}

\* C2: off(e, L) with a function L returns without an error and removes from
\* listeners(e) the first entry that is L or a once/many function made for L,
\* and nothing else: the other entries keep their order, every other path's
\* array and all_ are as before; with no such entry, or no array at the path,
\* the tree and all_ are as before.
C2_OffRemovesFirstMatch ==
  [][(last'.op = "off" /\ IsFunction(last'.listener)) =>
       LET before == Entries(listenersTree_, last'.event)
           hits == MatchesOf(before, last'.listener)
           key == splitNamespaces(Entry, last'.event)
       IN /\ last'.exc = "none"
          /\ all_' = all_
          /\ maxListeners_' = maxListeners_ /\ delimiter_' = delimiter_
          /\ last'.calls = << >>
          /\ IF hits = {}
             THEN listenersTree_' = listenersTree_
             ELSE /\ DOMAIN listenersTree_' = DOMAIN listenersTree_
                  /\ \A k \in DOMAIN listenersTree_ :
                       k # key => listenersTree_'[k] = listenersTree_[k]
                  /\ Entries(listenersTree_', last'.event) =
                       splice(before, CHOOSE i \in hits : \A j \in hits : i <= j)
                  /\ listenersTree_'[key].warned = listenersTree_[key].warned]_vars

\* off(e, L) has removed an entry and a later duplicate of L is still registered
C2_Witness ==
  /\ last.op = "off" /\ last.exc = "none"
  /\ Count(Entries(listenersTree_, last.event), last.listener) >= 1

Min(a, b) == IF a <= b THEN a ELSE b

\* whether listeners(event) holds the function fn
Registered(tree, event, fn) == Count(Entries(tree, event), fn) > 0

\* C3: after many(e, n, L) with n >= 1 (once(e, L) for n = 1) and k emit(e)
\* calls right after it, L has been invoked min(n, k) times by the function
\* many() registered, and from the n-th of those emits on listeners(e) no longer
\* holds that function.
C3_ManyInvokesAmountTimes ==
  run.active =>
    /\ run.invoked = Min(run.n, run.k)
    /\ run.k >= run.n => ~Registered(listenersTree_, run.event, Handler(run.id))

\* many(e, 2, L) was followed by three emits of e
C3_Witness ==
  run.active /\ run.n = 2 /\ run.k = 3 /\ run.invoked = 2

IsDirect(call) == call.by = 0

\* the functions emit itself invoked in the last call, in order
Direct(l) ==
  LET direct == SelectSeq(l.calls, IsDirect)
  IN [i \in 1..Len(direct) |-> direct[i].fn]

\* whether listeners(event) holds fn or a once/many function made for fn
RegisteredFor(tree, event, fn) == MatchesOf(Entries(tree, event), fn) # {}

\* C4: emit(e) invokes only entries of the array stored at exactly the path of
\* e and entries of all_; a callback registered only under other names (beside,
\* above or below e) is not invoked, neither by emit nor by a once/many function.
C4_EmitOnlyExactPath ==
  [][last'.op = "emit" =>
       /\ \A i \in 1..Len(last'.calls) :
            IF last'.calls[i].by = 0
            THEN \/ Registered(listenersTree_, last'.event, last'.calls[i].fn)
                 \/ Count(AnyEntries(all_), last'.calls[i].fn) > 0
            ELSE Registered(listenersTree_, last'.event, Handler(last'.calls[i].by))
       /\ \A l \in Callbacks :
            (/\ ~RegisteredFor(listenersTree_, last'.event, l)
             /\ Count(AnyEntries(all_), l) = 0)
            => Count(Invoked(last'), l) = 0]_vars

\* emit("a.b") has invoked f and not g, which is registered under "a.c" only
C4_Witness ==
  /\ last.op = "emit" /\ last.event = EventAB
  /\ Invoked(last) = << Fn("f") >>
  /\ Registered(listenersTree_, EventAC, Fn("g"))
  /\ ~Registered(listenersTree_, EventAB, Fn("g"))

\* C5: an emit(e) that returns has invoked the entries of listeners(e) in their
\* order and then the entries of all_ in their order, each once, and returns
\* true exactly when it invoked a listener.  (No callback of this specification
\* calls the emitter; the once/many functions, which remove themselves, are
\* covered.)
C5_EmitOrderAndResult ==
  [][Returned("emit") =>
       /\ Direct(last') = Entries(listenersTree_, last'.event) \o AnyEntries(all_)
       /\ last'.ret = IF last'.calls # << >> THEN "true" ELSE "false"]_vars

\* emit(e) has invoked a listener of e and then a listener of all_
C5_Witness ==
  /\ last.op = "emit" /\ last.exc = "none" /\ last.ret = "true"
  /\ Len(last.calls) >= 2
  /\ \E l \in Callbacks :
       /\ last.calls[1].fn = l
       /\ Registered(listenersTree_, last.event, l)
  /\ AnyEntries(all_) # << >>
  /\ last.calls[Len(last.calls)].fn = all_.items[Len(all_.items)]

\* C6: on(e, x), off(e, x) and offAny(x) with x not a function throw a
\* TypeError and change nothing: no array of the tree, not all_, no closure, no
\* configuration field, and no function is invoked (no "newListener" dispatch).
C6_InvalidListenerRejected ==
  [][(last'.op \in {"on", "off", "offAny"} /\ ~IsFunction(last'.listener)) =>
       /\ last'.exc = "TypeError"
       /\ last'.calls = << >>
       /\ listenersTree_' = listenersTree_
       /\ all_' = all_
       /\ closures' = closures
       /\ maxListeners_' = maxListeners_ /\ delimiter_' = delimiter_]_vars

\* on(e, x) has thrown while a listener that "newListener" would reach existed
C6_Witness ==
  /\ last.op = "on" /\ ~IsFunction(last.listener) /\ last.exc = "TypeError"
  /\ AnyEntries(all_) # << >>
  /\ Entries(listenersTree_, NewListenerName) # << >>

\* the last call was removeAllListeners() without an argument
ClearedAll(l) == l.op = "removeAllListeners" /\ l.event.type = "undefined"

\* C7: after removeAllListeners() listeners(x) is undefined for every name x
\* and all_ is null, not an empty array; an emit that follows invokes nothing
\* and returns false.
C7_RemoveAllClears ==
  [][/\ ClearedAll(last') =>
          /\ last'.exc = "none"
          /\ \A x \in Events : ListenersOf(listenersTree_', x).type = "undefined"
          /\ listenersTree_' = TrieNew
          /\ all_'.type = "null"
     /\ (ClearedAll(last) /\ last'.op = "emit") =>
          /\ last'.calls = << >>
          /\ last'.ret = "false"]_vars

\* removeAllListeners() has run on an emitter on which once() or many() had
\* registered a function
C7_Witness ==
  /\ ClearedAll(last) /\ last.exc = "none"
  /\ Len(closures) >= 1

\* C8 as stated: removeAllListeners(e) with an event name leaves listeners(e)
\* an empty array, and leaves the array of every other name and all_ as they
\* were.
C8_Claim ==
  [][(last'.op = "removeAllListeners" /\ last'.event.type = "string") =>
       /\ ListenersOf(listenersTree_', last'.event) = ListenerArray(<< >>, FALSE)
       /\ \A x \in NsEvents \ {last'.event} :
            ListenersOf(listenersTree_', x) = ListenersOf(listenersTree_, x)
       /\ all_' = all_]_vars

\* the statement of C8 for the names that are not the empty string
C8_NonEmptyName ==
  [][(last'.op = "removeAllListeners" /\ Truthy(last'.event)) =>
       /\ ListenersOf(listenersTree_', last'.event) = ListenerArray(<< >>, FALSE)
       /\ \A x \in NsEvents \ {last'.event} :
            ListenersOf(listenersTree_', x) = ListenersOf(listenersTree_, x)
       /\ all_' = all_]_vars

\* the step is a registration (on, many with an amount above 0, once) that
\* returned
Registers == last'.op \in {"on", "many", "once"} /\ last'.ret = "this"

\* C9 as stated: with a positive maximum, the leak warning for a path is issued
\* by the first registration that leaves its array longer than maxListeners_,
\* and by no later registration on that path.
C9_Claim ==
  [][(Registers /\ maxListeners_ > 0) =>
       LET key == splitNamespaces(Entry, last'.event)
           after == Entries(listenersTree_', last'.event)
       IN /\ key \in issued => last'.warnings = << >>
          /\ (key \notin issued /\ Len(after) > maxListeners_)
               => Len(last'.warnings) = 1
          /\ Len(after) <= maxListeners_ => last'.warnings = << >>]_vars

\* C10 as stated: once maxListeners_ is 0 no registration issues the leak
\* warning or sets the warned flag of an array.
C10_Claim ==
  [][(maxListeners_ = 0 /\ last'.op \in {"on", "many", "once"}) =>
       /\ last'.warnings = << >>
       /\ \A k \in DOMAIN listenersTree_' :
            listenersTree_'[k].warned => (k \in DOMAIN listenersTree_ /\ listenersTree_[k].warned)]_vars

\* C11 as stated: on(e, L) with a function L returns without an error and
\* appends L to listeners(e) whatever the length of the array and the value of
\* maxListeners_, also when the call makes the array longer than maxListeners_.
C11_Claim ==
  [][(last'.op = "on" /\ IsFunction(last'.listener)) =>
       /\ last'.exc = "none"
       /\ Entries(listenersTree_', last'.event) =
            Append(Surviving(Entries(listenersTree_, last'.event)), last'.listener)]_vars

\* C12 as stated: on, many and once return the emitter whenever they do not
\* throw, many(e, n, L) with n <= 0 included.
C12_Claim ==
  [][(last'.op \in {"on", "many", "once"} /\ last'.exc = "none") =>
       last'.ret = "this"]_vars

\* the eleventh on("a", f) under the default maximum has thrown on a host
\* without console.warning, after it stored f
C11_Thrown ==
  /\ last.op = "on" /\ last.exc = "TypeError" /\ IsFunction(last.listener)
  /\ maxListeners_ = DefaultMaxListeners
  /\ Len(Entries(listenersTree_, last.event)) = DefaultMaxListeners + 1

\* the event given as the array of the pieces of name between the occurrences
\* of the delimiter d
PathOf(name, d) == Arr(split(name.chars, d))

\* C13 as stated: on, off, emit and removeAllListeners with a string name act
\* on the path whose segments are the pieces of the name between occurrences of
\* delimiter_ ("." at first, then what setDelimiter stored): on appends the
\* listener to the array of that path, off removes its first match from it,
\* emit invokes the entries of that array, removeAllListeners leaves it empty.
C13_Claim ==
  [][(last'.event.type = "string" /\ last'.exc = "none") =>
       LET path == PathOf(last'.event, delimiter_)
           before == Entries(listenersTree_, path)
           after == Entries(listenersTree_', path)
           hits == MatchesOf(before, last'.listener)
       IN /\ last'.op = "on" => after = Append(before, last'.listener)
          /\ last'.op = "off" =>
               after = IF hits = {} THEN before
                       ELSE splice(before, CHOOSE i \in hits : \A j \in hits : i <= j)
          /\ last'.op = "emit" => Direct(last') = before \o AnyEntries(all_)
          /\ last'.op = "removeAllListeners" =>
               ListenersOf(listenersTree_', path) = ListenerArray(<< >>, FALSE)]_vars

\* on("a.b", L) under the delimiter "." has stored L at the one-segment path
\* ["a.b"] and nothing at the path ["a", "b"]
C13_OneSegment ==
  /\ last.op = "on" /\ last.event = EventAB /\ delimiter_ = Str(<< "." >>)
  /\ Holds(ListenersOf(listenersTree_, Arr(<< EventAB.chars >>)), last.listener)
  /\ ListenersOf(listenersTree_, PathAB).type = "undefined"

\* C14 as stated: many(e, n, x) and once(e, x) with x not a function throw a
\* TypeError at the call and register nothing.
C14_Claim ==
  [][(last'.op \in {"many", "once"} /\ ~IsFunction(last'.listener)) =>
       /\ last'.exc = "TypeError"
       /\ listenersTree_' = listenersTree_
       /\ all_' = all_]_vars

\* once(e, x) with x not a function has returned the emitter, and its
\* handlerInternal is registered
C14_Registered ==
  /\ last.op = "once" /\ ~IsFunction(last.listener) /\ last.ret = "this"
  /\ \E id \in 1..Len(closures) :
       /\ closures[id].listener = last.listener
       /\ Registered(listenersTree_, last.event, Handler(id))

\* an emit has thrown the TypeError of applying what is no function, after the
\* handlerInternal made for it was invoked
C14_Deferred ==
  /\ last.op = "emit" /\ last.exc = "TypeError"
  /\ last.calls # << >>
  /\ last.calls[Len(last.calls)].fn.name = "handlerInternal"

\* C15 as stated: the function many(e, n, L) registered invokes L at most n
\* times, also when another listener of e calls emit(e) while an emit(e) is
\* iterating; the listener of once(e, L) is not invoked a second time.
C15_Claim ==
  run.active => run.invoked <= run.n

\* one emit("a") after once("a", L) has invoked L twice
C15_Twice ==
  run.active /\ run.n = 1 /\ run.k = 1 /\ run.invoked = 2

\* the functions the outermost emit of the last call itself invoked, in order
Outermost(l) ==
  LET IsOutermost(call) == call.by = 0 /\ call.depth = 1
      outer == SelectSeq(l.calls, IsOutermost)
  IN [i \in 1..Len(outer) |-> outer[i].fn]

\* C16 as stated: an emit(e) that returns has invoked every listener that was
\* in listeners(e) or in all_ when it started exactly as often as it was
\* there, whatever the listeners removed while it ran (off, offAny, the
\* self-removal of a once/many function), with and without an array at the
\* path of e.
C16_Claim ==
  [][Returned("emit") =>
       LET started == Entries(listenersTree_, last'.event) \o AnyEntries(all_)
       IN \A i \in 1..Len(started) :
            Count(Outermost(last'), started[i]) = Count(started, started[i])]_vars

\* emit("a") has returned without invoking g, which was in all_ when it started
\* and still is
C16_Skipped ==
  /\ last.op = "emit" /\ last.exc = "none"
  /\ Holds(all_, Fn("g"))
  /\ Invoked(last) = << Fn("leaves") >>

\* C17 as stated: emit(e) invokes no listener that was registered, by on(e, M)
\* or by onAny(M), from inside a listener while it was running: every function
\* it invokes was in listeners(e) or in all_ when it started, with and without
\* an array at the path of e.
C17_Claim ==
  [][last'.op = "emit" =>
       LET started == Entries(listenersTree_, last'.event) \o AnyEntries(all_)
       IN \A i \in 1..Len(Outermost(last')) :
            Count(started, Outermost(last')[i]) > 0]_vars

\* emit("a") has invoked m, which onAnyM registered while that emit ran
C17_SameEmit ==
  /\ last.op = "emit" /\ last.exc = "none"
  /\ Outermost(last) = << Fn("onAnyM"), Fn("m") >>

\* the statements of C16 and C17 for the emits that find an array at the path
\* of the event, which iterate a copy
C16_WithArray ==
  [][(Returned("emit") /\ ListenersOf(listenersTree_, last'.event).type = "array") =>
       Outermost(last') = Entries(listenersTree_, last'.event) \o AnyEntries(all_)]_vars

C17_WithArray ==
  [][(last'.op = "emit" /\ ListenersOf(listenersTree_, last'.event).type = "array") =>
       LET started == Entries(listenersTree_, last'.event) \o AnyEntries(all_)
       IN \A i \in 1..Len(Outermost(last')) :
            Count(started, Outermost(last')[i]) > 0]_vars

\* whether a is b or the first entries of b
IsPrefixOf(a, b) == Len(a) <= Len(b) /\ a = SubSeq(b, 1, Len(a))

\* C18: on(e, L) with a function L dispatches one "newListener" emission
\* before it stores L: the listeners of "newListener" and then those of all_ are
\* invoked, in order, with the arguments (e, L) (up to the first that throws);
\* every function invoked in the call finds listeners(e) holding L as often as
\* before the call, so a listener being registered for "newListener" is not
\* invoked by its own registration; and L is stored when the call returns.
C18_NewListenerBeforeStore ==
  [][(last'.op = "on" /\ IsFunction(last'.listener)) =>
       LET targets == Entries(listenersTree_, NewListenerName) \o AnyEntries(all_)
           held == Count(Entries(listenersTree_, last'.event), last'.listener)
       IN /\ IF last'.exc = "none"
             THEN Outermost(last') = targets
             ELSE IsPrefixOf(Outermost(last'), targets)
          /\ \A i \in 1..Len(last'.calls) :
               /\ last'.calls[i].depth = 1 =>
                    last'.calls[i].args = << last'.event, last'.listener >>
               /\ Count(Entries(last'.calls[i].seen, last'.event), last'.listener) = held
          /\ Count(Entries(listenersTree_', last'.event), last'.listener) =
               IF last'.exc = "none" THEN held + 1 ELSE held]_vars

\* on("newListener", L) has returned after its dispatch invoked a listener of
\* "newListener" that is not L
C18_Witness ==
  /\ last.op = "on" /\ last.exc = "none" /\ last.event = NewListenerName
  /\ last.calls # << >>
  /\ Count(Invoked(last), last.listener) = 0
  /\ Count(Entries(listenersTree_, NewListenerName), last.listener) = 1

\* a once/many function that was invoked in the step as often as its amount
\* allowed, or more often
Exhausted(fn) ==
  /\ fn.name = "handlerInternal"
  /\ Count(Invoked(last'), fn) >= closures[fn.id].amount

\* seq without the once/many functions exhausted in the step
RECURSIVE Remaining(_)
Remaining(seq) ==
  IF seq = << >> THEN << >>
  ELSE IF Exhausted(Head(seq)) THEN Remaining(Tail(seq))
  ELSE << Head(seq) >> \o Remaining(Tail(seq))

\* C19: when a listener throws during emit(e), emit ends with that exception;
\* the throwing listener is the last function invoked, and the functions the
\* emit itself invoked are the first of listeners(e) followed by all_, in
\* order; the arrays are as they were when the listener threw: all_ as before
\* the call, each array of the tree as before less the once/many functions that
\* had removed themselves.
C19_ThrowPropagates ==
  [][(last'.op = "emit" /\ Count(Invoked(last'), Fn("throws")) > 0) =>
       /\ last'.exc = "Error"
       /\ last'.calls[Len(last'.calls)].fn = Fn("throws")
       /\ Count(Invoked(last'), Fn("throws")) = 1
       /\ IsPrefixOf(Outermost(last'),
                     Entries(listenersTree_, last'.event) \o AnyEntries(all_))
       /\ all_' = all_
       /\ DOMAIN listenersTree_' = DOMAIN listenersTree_
       /\ \A k \in DOMAIN listenersTree_ :
            listenersTree_'[k] = [listenersTree_[k] EXCEPT !.items = Remaining(@)]]_vars

\* emit("a") has thrown and a listener after the one that threw was not
\* invoked and is still registered
C19_Witness ==
  /\ last.op = "emit" /\ last.exc = "Error"
  /\ Len(Outermost(last)) <
       Len(Entries(listenersTree_, last.event) \o AnyEntries(all_))
  /\ \E l \in {Fn("f"), Fn("emits")} :
       /\ Count(Invoked(last), l) = 0
       /\ Holds(ListenersOf(listenersTree_, last.event), l) \/ Holds(all_, l)

\* how many of the first i calls of seq the handlerInternal closure id made
CallsByUpTo(seq, id, i) == Cardinality({j \in 1..i : seq[j].by = id})

\* C20: a once/many function removes itself before it invokes its listener for
\* the last time: from the invocation that brings amount to 0 on, the listener
\* finds listeners(e) without that function.  So whatever the listener does
\* then (throw, call emit(e)), a function still registered after a call has an
\* amount of at least 1, and a call invokes only once/many functions that were
\* registered when it started.
C20_RemovedBeforeLastRun ==
  [][/\ \A i \in 1..Len(last'.calls) :
          LET id == last'.calls[i].by
          IN id # 0 =>
               /\ Registered(listenersTree_, closures[id].event, Handler(id))
               /\ CallsByUpTo(last'.calls, id, i) >= closures[id].amount =>
                    ~Registered(last'.calls[i].seen, closures[id].event, Handler(id))
     /\ \A id \in 1..Len(closures') :
          \A k \in DOMAIN listenersTree_' :
            Holds(listenersTree_'[k], Handler(id)) => closures'[id].amount >= 1]_vars

\* an emit has thrown out of the listener of a once/many function on its last
\* invocation, and the function is registered no more
C20_Witness ==
  /\ last.op = "emit" /\ last.exc = "Error"
  /\ last.calls[Len(last.calls)].by # 0
  /\ closures[last.calls[Len(last.calls)].by] = Unreachable
  /\ \A k \in DOMAIN listenersTree_ :
       ~Holds(listenersTree_[k], Handler(last.calls[Len(last.calls)].by))

\* a once function whose listener calls emit("a") has run and is registered no
\* more
C20_Reentered ==
  /\ last.op = "emit" /\ last.exc = "none"
  /\ \E i \in 1..Len(last.calls) :
       /\ last.calls[i].by # 0 /\ last.calls[i].fn = Fn("emits")
       /\ closures[last.calls[i].by] = Unreachable

====
